---- MODULE Spec2Model ----
(***************************************************************************)
(* VolatilityCarryStrategy (src/strategies/volatility_carry.py).           *)
(*                                                                         *)
(* The strategy object holds its configuration and a little bookkeeping;   *)
(* generate_signal runs update_price_history, _has_sufficient_data,        *)
(* _analyze_term_structure, _validate_carry_opportunity, should_trade and  *)
(* the global min_confidence check.  The price-history manager, the base   *)
(* strategy and the configuration objects are collaborators: what each of  *)
(* them answers (or that it raises) is an input of a call.                 *)
(*                                                                         *)
(* Numbers are exact rationals <<n, d>> (d > 0, lowest terms); Python's    *)
(* binary floating point rounding is not modelled.                         *)
(***************************************************************************)
EXTENDS Integers, Sequences, FiniteSets, TLC

VARIABLES cfg, self, pc, op, inp, out

vars == <<cfg, self, pc, op, inp, out>>

(***************************************************************************)
(* Rational arithmetic.                                                    *)
(***************************************************************************)
Abs(n) == IF n < 0 THEN -n ELSE n

RECURSIVE Gcd(_, _)
Gcd(a, b) == IF b = 0 THEN a ELSE Gcd(b, a % b)

Norm(n, d) ==
    LET s == IF d < 0 THEN -1 ELSE 1
        g == Gcd(Abs(n), Abs(d))
    IN  <<(s * n) \div g, (s * d) \div g>>

R(n, d) == Norm(n, d)
Add(a, b) == Norm(a[1] * b[2] + b[1] * a[2], a[2] * b[2])
Sub(a, b) == Norm(a[1] * b[2] - b[1] * a[2], a[2] * b[2])
Mul(a, b) == Norm(a[1] * b[1], a[2] * b[2])
Div(a, b) == Norm(a[1] * b[2], a[2] * b[1])
Neg(a) == <<-a[1], a[2]>>
Lt(a, b) == a[1] * b[2] < b[1] * a[2]
Le(a, b) == a[1] * b[2] <= b[1] * a[2]
Gt(a, b) == Lt(b, a)
Ge(a, b) == Le(b, a)
RAbs(a) == <<Abs(a[1]), a[2]>>
Min(a, b) == IF Lt(b, a) THEN b ELSE a
Zero == R(0, 1)
IsZero(a) == a[1] = 0

(***************************************************************************)
(* Values.                                                                 *)
(***************************************************************************)
None == <<>>
Some(s) == <<s>>
IsNone(o) == o = None
The(o) == o[1]

HOLD == 0
BUY == 1
SELL == 2

Signal(a, conf, entry, stop, target) ==
    [action |-> a, confidence |-> conf, entry_price |-> entry,
     stop_price |-> stop, target_price |-> target]

Timeframes == <<"5m", "15m", "1h">>

CallUpdate == "update_price_history"
CallStatus == "get_status"
CallVol(tf) == "calculate_realized_volatility:" \o tf
CallAtr == "calculate_atr_simple"
CallRegime == "calculate_volatility_regime"
CallBreakout == "calculate_volatility_breakout"
CallShouldTrade == "should_trade"
CallMinConf == "risk_management.min_confidence"
NoFault == "none"
ZeroDivision == "ZeroDivisionError"

Called(c, calls) == \E i \in DOMAIN calls : calls[i] = c

(***************************************************************************)
(* What a function evaluation yields: its return value, the collaborator   *)
(* calls it made in order, the fault that occurred in it ("none" when      *)
(* nothing raised), whether an exception leaves it, and whether a division *)
(* by a zero threshold was evaluated; log is what the term-structure       *)
(* analysis logged, when it reached its logging; primary_signal is         *)
(* generate_signal's local of that name, once it holds a Signal.           *)
(***************************************************************************)
Res(r, calls, fault, exc, div0) ==
    [ret |-> r, calls |-> calls, fault |-> fault, exc |-> exc, div0 |-> div0,
     log |-> None, primary_signal |-> None]

(***************************************************************************)
(* _has_sufficient_data: get_status, then every required timeframe must    *)
(* report at least 100 data_points; status.get(tf, {}).get('data_points',  *)
(* 0) reads an absent timeframe or an absent count as 0.                   *)
(***************************************************************************)
RequiredPoints == 100

DataPoints(status, tf) ==
    IF status.tfs[tf].present /\ status.tfs[tf].has_points
    THEN status.tfs[tf].data_points
    ELSE 0

\* Mutant: more than 100 data_points required.
HasSufficientDataStrict(env) ==
    IF env.status.raises
    THEN Res(FALSE, <<CallStatus>>, CallStatus, TRUE, FALSE)
    ELSE Res(\A i \in 1..3 : ~(DataPoints(env.status, Timeframes[i]) <= RequiredPoints),
             <<CallStatus>>, NoFault, FALSE, FALSE)

_has_sufficient_data(env) ==
    IF env.status.raises
    THEN Res(FALSE, <<CallStatus>>, CallStatus, TRUE, FALSE)
    ELSE Res(\A i \in 1..3 : ~(DataPoints(env.status, Timeframes[i]) < RequiredPoints),
             <<CallStatus>>, NoFault, FALSE, FALSE)

(***************************************************************************)
(* _analyze_term_structure.                                                *)
(***************************************************************************)
MaxStrength == R(2, 1)
BaseConfidence == R(1, 2)
ConfidencePerStrength == R(1, 5)
ConfidenceCap == R(9, 10)
AtrFallbackFraction == R(1, 100)
AtrWindow == 20

\* `if realized_vols:`: None and the empty mapping are not stored.
Truthy(reading) == reading.kind = "dict"

\* vol_structure[tf].get('20_period', 0.0)
Get20(reading) == IF reading.has20 THEN reading.v ELSE Zero

\* The loop over the timeframes stops at the first call that raises.
FirstRaise(env) ==
    IF env.vol["5m"].kind = "raise" THEN 1
    ELSE IF env.vol["15m"].kind = "raise" THEN 2
    ELSE IF env.vol["1h"].kind = "raise" THEN 3
    ELSE 0

VolCalls(env) ==
    LET k == FirstRaise(env)
        n == IF k = 0 THEN 3 ELSE k
    IN  [i \in 1..n |-> CallVol(Timeframes[i])]

\* (b - a) / a if a > 0 else 0
Slope(a, b) == IF Gt(a, Zero) THEN Div(Sub(b, a), a) ELSE Zero

\* min(x / threshold, 2.0); x / 0.0 is inf for numpy floats, so the min is 2.0
SignalStrength(x, threshold) ==
    IF IsZero(threshold) THEN MaxStrength ELSE Min(Div(x, threshold), MaxStrength)

\* min(0.5 + signal_strength * 0.2, 0.9)
Confidence(signal_strength) ==
    Min(Add(BaseConfidence, Mul(signal_strength, ConfidencePerStrength)), ConfidenceCap)

\* Mutant: the SELL and BUY stops exchanged.
StopPriceSwapped(action, current_price, atr, c) ==
    IF action = BUY
    THEN Add(current_price, Mul(atr, c.stop_loss_atr_multiplier))
    ELSE Sub(current_price, Mul(atr, c.stop_loss_atr_multiplier))

StopPrice(action, current_price, atr, c) ==
    IF action = SELL
    THEN Add(current_price, Mul(atr, c.stop_loss_atr_multiplier))
    ELSE Sub(current_price, Mul(atr, c.stop_loss_atr_multiplier))

TargetPrice(action, current_price, atr, c) ==
    IF action = SELL
    THEN Sub(current_price, Mul(atr, c.target_atr_multiplier))
    ELSE Add(current_price, Mul(atr, c.target_atr_multiplier))

\* The Signal of a directional branch, given its confidence and ATR.
Candidate(action, confidence, atr, c, md) ==
    Signal(action, confidence, md.current_price,
           StopPrice(action, md.current_price, atr, c),
           TargetPrice(action, md.current_price, atr, c))

\* calculate_atr_simple(price_15m[-20:]) if len(price_15m) >= 20
\* else current_price * 0.01
WithAtr(action, confidence, c, md, env, calls, div0) ==
    IF md.n15 >= AtrWindow
    THEN IF env.atr.raises
         THEN Res(None, Append(calls, CallAtr), CallAtr, TRUE, div0)
         ELSE Res(Some(Candidate(action, confidence, env.atr.v, c, md)),
                  Append(calls, CallAtr), NoFault, FALSE, div0)
    ELSE Res(Some(Candidate(action, confidence,
                            Mul(md.current_price, AtrFallbackFraction), c, md)),
             calls, NoFault, FALSE, div0)

\* One directional branch: strength, confidence, ATR, stop, target, Signal.
\* Dividing by a zero threshold raises ZeroDivisionError for Python floats.
Directional(action, x, threshold, c, md, env, calls) ==
    IF IsZero(threshold) /\ ~env.numpy_floats
    THEN Res(None, calls, ZeroDivision, TRUE, TRUE)
    ELSE WithAtr(action, Confidence(SignalStrength(x, threshold)), c, md, env, calls,
                 IsZero(threshold))

\* Mutant: the overall slope as the sum of the two adjacent slopes.
OverallSlopeAdjacent(short_vol, medium_vol, long_vol) ==
    Add(Slope(short_vol, medium_vol), Slope(medium_vol, long_vol))

\* (long_vol - short_vol) / short_vol if short_vol > 0 else 0
OverallSlope(short_vol, medium_vol, long_vol) == Slope(short_vol, long_vol)

\* The "VolCarry Term Structure Analysis" lines, written when nothing raised.
Logged(r, short_vol, medium_vol, long_vol, overall_slope) ==
    IF r.exc THEN r
    ELSE [r EXCEPT !.log = Some([short_vol |-> short_vol, medium_vol |-> medium_vol,
                                 long_vol |-> long_vol, overall_slope |-> overall_slope])]

\* Mutant: the backwardation branch without abs().
ClassifyNoAbs(overall_slope, c, md, env, calls) ==
    IF Gt(overall_slope, c.contango_threshold)
    THEN Directional(SELL, overall_slope, c.contango_threshold, c, md, env, calls)
    ELSE IF Lt(overall_slope, Neg(c.backwardation_threshold))
    THEN Directional(BUY, overall_slope, c.backwardation_threshold, c, md, env, calls)
    ELSE Res(None, calls, NoFault, FALSE, FALSE)

\* if overall_slope > contango_threshold: SELL
\* elif overall_slope < -backwardation_threshold: BUY
Classify(overall_slope, c, md, env, calls) ==
    IF Gt(overall_slope, c.contango_threshold)
    THEN Directional(SELL, overall_slope, c.contango_threshold, c, md, env, calls)
    ELSE IF Lt(overall_slope, Neg(c.backwardation_threshold))
    THEN Directional(BUY, RAbs(overall_slope), c.backwardation_threshold,
                     c, md, env, calls)
    ELSE Res(None, calls, NoFault, FALSE, FALSE)

\* short_medium_slope and medium_long_slope are computed and used nowhere.
TermStructure(short_vol, medium_vol, long_vol, overall_slope, c, md, env, calls) ==
    Logged(Classify(overall_slope, c, md, env, calls),
           short_vol, medium_vol, long_vol, overall_slope)

Readings(short_vol, medium_vol, long_vol, c, md, env, calls) ==
    TermStructure(short_vol, medium_vol, long_vol,
                  OverallSlope(short_vol, medium_vol, long_vol), c, md, env, calls)

VolLoop(k, c, md, env, calls) ==
    IF k # 0 THEN Res(None, calls, CallVol(Timeframes[k]), TRUE, FALSE)
    ELSE IF Cardinality({i \in 1..3 : Truthy(env.vol[Timeframes[i]])}) < 3
    THEN Res(None, calls, NoFault, FALSE, FALSE)
    ELSE Readings(Get20(env.vol["5m"]), Get20(env.vol["15m"]), Get20(env.vol["1h"]),
                  c, md, env, calls)

_analyze_term_structure_try(c, md, env) ==
    VolLoop(FirstRaise(env), c, md, env, VolCalls(env))

\* except Exception: log and return None
AnalysisCaught(r) == IF r.exc THEN [r EXCEPT !.ret = None, !.exc = FALSE] ELSE r

_analyze_term_structure(c, md, env) ==
    AnalysisCaught(_analyze_term_structure_try(c, md, env))

(***************************************************************************)
(* _validate_carry_opportunity: regime filter, breakout override,          *)
(* confidence floor; any exception is a rejection.                         *)
(***************************************************************************)
BreakoutLimit == R(5, 2)

\* `if breakout_info and breakout_info.get('is_breakout', False)`
Flagged(b) == b.kind = "dict" /\ b.has_flag /\ b.is_breakout

\* breakout_info.get('breakout_strength', 0)
BreakoutStrength(b) == IF b.has_strength THEN b.breakout_strength ELSE Zero

\* Mutant: the two regimes exchanged.
RegimeRejectsSwapped(vol_regime, signal) ==
    \/ vol_regime = "high" /\ signal.action = SELL
    \/ vol_regime = "low" /\ signal.action = BUY

RegimeRejects(vol_regime, signal) ==
    \/ vol_regime = "low" /\ signal.action = SELL
    \/ vol_regime = "high" /\ signal.action = BUY

\* Mutant: a strength of exactly 2.5 rejects too.
BreakoutRejectsAtLimit(b) == Flagged(b) /\ Ge(BreakoutStrength(b), BreakoutLimit)

BreakoutRejects(b) == Flagged(b) /\ Gt(BreakoutStrength(b), BreakoutLimit)

BelowCarryFloor(signal, c) == Lt(signal.confidence, c.min_carry_confidence)

_validate_carry_opportunity_try(c, signal, env) ==
    IF env.regime = "raise"
    THEN Res(FALSE, <<CallRegime>>, CallRegime, TRUE, FALSE)
    ELSE IF RegimeRejects(env.regime, signal)
    THEN Res(FALSE, <<CallRegime>>, NoFault, FALSE, FALSE)
    ELSE IF env.breakout.kind = "raise"
    THEN Res(FALSE, <<CallRegime, CallBreakout>>, CallBreakout, TRUE, FALSE)
    ELSE IF BreakoutRejects(env.breakout)
    THEN Res(FALSE, <<CallRegime, CallBreakout>>, NoFault, FALSE, FALSE)
    ELSE IF BelowCarryFloor(signal, c)
    THEN Res(FALSE, <<CallRegime, CallBreakout>>, NoFault, FALSE, FALSE)
    ELSE Res(TRUE, <<CallRegime, CallBreakout>>, NoFault, FALSE, FALSE)

\* except Exception: log and return False
ValidationCaught(r) == IF r.exc THEN [r EXCEPT !.ret = FALSE, !.exc = FALSE] ELSE r

_validate_carry_opportunity(c, signal, env) ==
    ValidationCaught(_validate_carry_opportunity_try(c, signal, env))

(***************************************************************************)
(* generate_signal.  A stage's evaluation is joined to what ran before it: *)
(* the calls are appended, the first fault is kept.                        *)
(***************************************************************************)
Then(calls, r) == [r EXCEPT !.calls = calls \o r.calls]

BelowGlobalFloor(signal, c) == Lt(signal.confidence, c.min_confidence)

\* The strategy's bookkeeping after a call that returns `signal`.
Bookkeeping(s, signal) == s

\* should_trade, then the global minimum-confidence check, then the return.
AfterValidation(primary, c, env, calls) ==
    IF env.should_trade = "raise"
    THEN [primary EXCEPT !.ret = None, !.calls = Append(calls, CallShouldTrade),
                         !.fault = CallShouldTrade, !.exc = TRUE]
    ELSE IF env.should_trade = "false"
    THEN [primary EXCEPT !.ret = None, !.calls = Append(calls, CallShouldTrade)]
    ELSE IF env.min_confidence_read = "raise"
    THEN [primary EXCEPT !.ret = None, !.calls = calls \o <<CallShouldTrade, CallMinConf>>,
                         !.fault = CallMinConf, !.exc = TRUE]
    ELSE IF BelowGlobalFloor(The(primary.ret), c)
    THEN [primary EXCEPT !.ret = None, !.calls = calls \o <<CallShouldTrade, CallMinConf>>]
    ELSE [primary EXCEPT !.calls = calls \o <<CallShouldTrade, CallMinConf>>]

\* Mutant: the validator's verdict is not looked at.
ValidatedUnchecked(primary, valid, c, env) ==
    IF valid.exc
    THEN [primary EXCEPT !.ret = None, !.calls = valid.calls,
                         !.fault = valid.fault, !.exc = valid.exc]
    ELSE AfterValidation(primary, c, env, valid.calls)

Validated(primary, valid, c, env) ==
    IF valid.exc \/ ~valid.ret
    THEN [primary EXCEPT !.ret = None, !.calls = valid.calls,
                         !.fault = valid.fault, !.exc = valid.exc]
    ELSE AfterValidation(primary, c, env, valid.calls)

Analyzed(primary, c, env) ==
    IF primary.exc \/ IsNone(primary.ret) THEN [primary EXCEPT !.ret = None]
    ELSE Validated([primary EXCEPT !.primary_signal = primary.ret],
                   Then(primary.calls,
                        _validate_carry_opportunity(c, The(primary.ret), env)),
                   c, env)

Sufficient(suff, c, md, env) ==
    IF suff.exc \/ ~suff.ret THEN [suff EXCEPT !.ret = None]
    ELSE Analyzed(Then(suff.calls, _analyze_term_structure(c, md, env)), c, env)

generate_signal_try(c, md, env) ==
    IF env.update = "raise"
    THEN Res(None, <<CallUpdate>>, CallUpdate, TRUE, FALSE)
    ELSE Sufficient(Then(<<CallUpdate>>, _has_sufficient_data(env)), c, md, env)

\* Mutant: no except clause around the body of generate_signal.
GenerateUncaught(r) == r

\* except Exception: log and return None
GenerateCaught(r) == IF r.exc THEN [r EXCEPT !.ret = None, !.exc = FALSE] ELSE r

\* Mutant: a Signal equal to the last one returned is suppressed.
ReturnedUnlessRepeated(s, r) ==
    IF IsNone(r.ret) THEN [res |-> r, self |-> s]
    ELSE IF s.last_carry_signal = r.ret THEN [res |-> [r EXCEPT !.ret = None], self |-> s]
    ELSE [res |-> r, self |-> [s EXCEPT !.last_carry_signal = r.ret]]

\* What the call returns, and the strategy's bookkeeping after it.
Returned(s, r) ==
    [res |-> r, self |-> IF IsNone(r.ret) THEN s ELSE Bookkeeping(s, The(r.ret))]

generate_signal(s, tried) == Returned(s, GenerateCaught(tried))

\* get_strategy_status()['last_signal']
get_strategy_status(s) == [last_signal |-> s.last_carry_signal]

(***************************************************************************)
(* Inputs.  A collaborator's answer is drawn only when the call is made:   *)
(* the answers of the calls a run never reaches stay at their Unused       *)
(* value, so an input records exactly what the run consumed.               *)
(***************************************************************************)
MaxVol == 3
MaxExtraPoints == 0

Hundredths(k) == R(k, 100)

VolRaise == [kind |-> "raise", has20 |-> FALSE, v |-> Zero]
VolNone == [kind |-> "none", has20 |-> FALSE, v |-> Zero]
VolNoKey == [kind |-> "dict", has20 |-> FALSE, v |-> Zero]
VolOf(k) == [kind |-> "dict", has20 |-> TRUE, v |-> Hundredths(k)]

AtrRaise == [raises |-> TRUE, v |-> Zero]
AtrOf(k) == [raises |-> FALSE, v |-> R(k, 1)]

TfAbsent == [present |-> FALSE, has_points |-> FALSE, data_points |-> 0]
TfNoCount == [present |-> TRUE, has_points |-> FALSE, data_points |-> 0]
TfPoints(n) == [present |-> TRUE, has_points |-> TRUE, data_points |-> n]

StatusRaise == [raises |-> TRUE, tfs |-> [tf \in {"5m", "15m", "1h"} |-> TfAbsent]]
StatusAll(n) == [raises |-> FALSE, tfs |-> [tf \in {"5m", "15m", "1h"} |-> TfPoints(n)]]
StatusShort(tf, t) == [StatusAll(RequiredPoints) EXCEPT !.tfs[tf] = t]

StatusResps ==
    {StatusRaise}
    \cup {StatusAll(RequiredPoints + e) : e \in 0..MaxExtraPoints}
    \cup {StatusShort(tf, t) : tf \in {"5m", "15m", "1h"},
                               t \in {TfAbsent, TfNoCount, TfPoints(RequiredPoints - 1)}}

BreakoutRaise ==
    [kind |-> "raise", has_flag |-> FALSE, is_breakout |-> FALSE,
     has_strength |-> FALSE, breakout_strength |-> Zero]
BreakoutNone == [BreakoutRaise EXCEPT !.kind = "none"]
BreakoutEmpty == [BreakoutRaise EXCEPT !.kind = "empty"]
BreakoutDict(flag, strength) ==
    [kind |-> "dict", has_flag |-> TRUE, is_breakout |-> flag,
     has_strength |-> TRUE, breakout_strength |-> strength]
BreakoutNoStrength == [BreakoutDict(TRUE, Zero) EXCEPT !.has_strength = FALSE]
BreakoutNoFlag(strength) == [BreakoutDict(FALSE, strength) EXCEPT !.has_flag = FALSE]

UnusedEnv ==
    [update |-> "ok",
     status |-> StatusAll(RequiredPoints),
     vol |-> [tf \in {"5m", "15m", "1h"} |-> VolNone],
     numpy_floats |-> FALSE,
     atr |-> AtrOf(0),
     regime |-> "medium",
     breakout |-> BreakoutNone,
     should_trade |-> "true",
     min_confidence_read |-> "ok"]

Snapshot(p, n) == [current_price |-> R(p, 1), n15 |-> n]

Config(ct, bt, tm, mcc, sm, mc) ==
    [contango_threshold |-> ct, backwardation_threshold |-> bt,
     target_atr_multiplier |-> tm, min_carry_confidence |-> mcc,
     stop_loss_atr_multiplier |-> sm, min_confidence |-> mc]

\* __init__
NewStrategy ==
    [last_carry_signal |-> None, vol_term_structure |-> <<>>,
     carry_history |-> <<>>, carry_threshold_breached |-> FALSE]

(***************************************************************************)
(* The strategy in use: generate_signal on successive market updates, and  *)
(* get_strategy_status.                                                    *)
(***************************************************************************)
GenConfigs ==
    {Config(R(2, 5), R(3, 10), R(3, 1), mcc, R(2, 1), mc) :
        mcc \in {R(3, 5), R(4, 5)}, mc \in {R(7, 10), R(17, 20)}}

GenSnapshots == {Snapshot(100, n) : n \in {AtrWindow - 1, AtrWindow}}
GenVol5 == {VolRaise, VolNone, VolOf(1), VolOf(2)}
GenVol15 == {VolRaise, VolNone, VolOf(2)}
GenVol1h == {VolRaise, VolNone, VolOf(1), VolOf(2), VolOf(3)}
GenAtr == {AtrRaise, AtrOf(2)}
GenRegimes == {"raise", "low", "medium", "high"}
GenBreakouts == {BreakoutRaise, BreakoutNone, BreakoutDict(TRUE, R(2, 1)),
                 BreakoutDict(TRUE, R(3, 1))}

\* The answers `e` with the answer of one collaborator replaced.
Put(e, field, a) ==
    IF field \in {"5m", "15m", "1h"} THEN [e EXCEPT !.vol[field] = a]
    ELSE [e EXCEPT ![field] = a]

\* Each run in E, continued by every answer of `call` when the run makes it.
Answered(E, c, md, call, answers, field) ==
    UNION {IF Called(call, generate_signal_try(c, md, e).calls)
           THEN {Put(e, field, a) : a \in answers} ELSE {e} : e \in E}

\* Each run in E that divides by a zero threshold, under both kinds of float.
Divided(E, c, md) ==
    UNION {IF generate_signal_try(c, md, e).div0
           THEN {Put(e, "numpy_floats", a) : a \in BOOLEAN} ELSE {e} : e \in E}

\* The runs of generate_signal on snapshot md, in the order of its calls.
GenEnvs(c, md) ==
    LET E1 == {Put(UnusedEnv, "update", u) : u \in {"ok", "raise"}}
        E2 == Answered(E1, c, md, CallStatus, StatusResps, "status")
        E3 == Answered(E2, c, md, CallVol("5m"), GenVol5, "5m")
        E4 == Answered(E3, c, md, CallVol("15m"), GenVol15, "15m")
        E5 == Answered(E4, c, md, CallVol("1h"), GenVol1h, "1h")
        E6 == Divided(E5, c, md)
        E7 == Answered(E6, c, md, CallAtr, GenAtr, "atr")
        E8 == Answered(E7, c, md, CallRegime, GenRegimes, "regime")
        E9 == Answered(E8, c, md, CallBreakout, GenBreakouts, "breakout")
        E10 == Answered(E9, c, md, CallShouldTrade, {"true", "false", "raise"},
                        "should_trade")
    IN  Answered(E10, c, md, CallMinConf, {"ok", "raise"}, "min_confidence_read")

\* Every (configuration, snapshot, collaborator answers) a call can meet, with
\* what the try block of generate_signal evaluates to on it.
GenRuns ==
    UNION {{[cfg |-> c, md |-> md, env |-> e, tried |-> generate_signal_try(c, md, e)] :
            e \in GenEnvs(c, md)} : c \in GenConfigs, md \in GenSnapshots}

Init ==
    /\ cfg \in GenConfigs
    /\ self = NewStrategy
    /\ pc = "idle"
    /\ op = "__init__"
    /\ inp = None
    /\ out = None

\* pc tells a call on the inputs of the call before it ("repeat") from any
\* other ("idle").
GenerateSignal ==
    /\ pc \in {"idle", "repeat"}
    /\ \E run \in GenRuns :
       /\ run.cfg = cfg
       /\ op' = "generate_signal"
       /\ inp' = [md |-> run.md, env |-> run.env]
       /\ out' = generate_signal(self, run.tried).res
       /\ self' = generate_signal(self, run.tried).self
       /\ pc' = IF op = "generate_signal" /\ inp = [md |-> run.md, env |-> run.env]
                THEN "repeat" ELSE "idle"
       /\ UNCHANGED cfg

\* calculate_volatility_metrics raising gives the degraded status object.
GetStrategyStatus ==
    /\ pc \in {"idle", "repeat"}
    /\ \E metrics_raise \in BOOLEAN :
       /\ op' = "get_strategy_status"
       /\ inp' = [metrics_raise |-> metrics_raise]
       /\ out' = IF metrics_raise THEN [status |-> "error", last_signal |-> None]
                 ELSE [status |-> "ok"] @@ get_strategy_status(self)
       /\ pc' = "idle"
       /\ UNCHANGED <<cfg, self>>

Next == GenerateSignal \/ GetStrategyStatus

Spec == Init /\ [][Next]_vars

(***************************************************************************)
(* _analyze_term_structure on its own: the inputs are drawn at the start,  *)
(* the analysis is applied to them, and it is applied again whenever the   *)
(* 15m reading alone changes.                                              *)
(***************************************************************************)
Thresholds ==
    {<<R(1, 2), R(3, 10)>>, <<R(-1, 2), R(3, 10)>>, <<R(1, 2), R(-3, 10)>>, <<Zero, Zero>>}
Multipliers == {<<R(3, 1), R(2, 1)>>, <<R(-1, 1), R(2, 1)>>, <<R(3, 1), Zero>>}

AnalyzeConfigs ==
    {Config(th[1], th[2], mu[1], R(3, 5), mu[2], R(7, 10)) :
        th \in Thresholds, mu \in Multipliers}

AnalyzeSnapshots ==
    {Snapshot(100, AtrWindow - 1), Snapshot(100, AtrWindow), Snapshot(250, AtrWindow)}
AnalyzeVol5 == {VolRaise, VolNone, VolNoKey} \cup {VolOf(k) : k \in -1..MaxVol}
AnalyzeVol15Dicts == {VolNoKey, VolOf(0), VolOf(2)}
AnalyzeVol15 == {VolRaise, VolNone} \cup AnalyzeVol15Dicts
AnalyzeVol1h == {VolRaise, VolNone, VolNoKey} \cup {VolOf(k) : k \in 1..MaxVol}
AnalyzeAtr == {AtrRaise, AtrOf(0), AtrOf(2)}

AnalysisAnswered(E, c, md, call, answers, field) ==
    UNION {IF Called(call, _analyze_term_structure_try(c, md, e).calls)
           THEN {Put(e, field, a) : a \in answers} ELSE {e} : e \in E}

AnalysisDivided(E, c, md) ==
    UNION {IF _analyze_term_structure_try(c, md, e).div0
           THEN {Put(e, "numpy_floats", a) : a \in BOOLEAN} ELSE {e} : e \in E}

\* The runs of _analyze_term_structure on snapshot md, in the order of its calls.
AnalyzeEnvs(c, md) ==
    LET E1 == {Put(UnusedEnv, "5m", a) : a \in AnalyzeVol5}
        E2 == AnalysisAnswered(E1, c, md, CallVol("15m"), AnalyzeVol15, "15m")
        E3 == AnalysisAnswered(E2, c, md, CallVol("1h"), AnalyzeVol1h, "1h")
        E4 == AnalysisDivided(E3, c, md)
    IN  AnalysisAnswered(E4, c, md, CallAtr, AnalyzeAtr, "atr")

AnalyzeRuns ==
    UNION {{[cfg |-> c, md |-> md, env |-> e] : e \in AnalyzeEnvs(c, md)} :
           c \in AnalyzeConfigs, md \in AnalyzeSnapshots}

InitAnalyze ==
    /\ \E run \in AnalyzeRuns :
       /\ cfg = run.cfg
       /\ inp = [md |-> run.md, env |-> run.env]
    /\ self = NewStrategy
    /\ pc = "ready"
    /\ op = "_analyze_term_structure"
    /\ out = None

AnalyzeTermStructure ==
    /\ op = "_analyze_term_structure"
    /\ pc = "ready"
    /\ out' = _analyze_term_structure(cfg, inp.md, inp.env)
    /\ pc' = "done"
    /\ UNCHANGED <<cfg, self, op, inp>>

\* The history manager answers another 15m reading; nothing else changes.
ReanalyzeMediumVol ==
    /\ op = "_analyze_term_structure"
    /\ pc \in {"done", "again"}
    /\ \A i \in 1..3 : Truthy(inp.env.vol[Timeframes[i]])
    /\ \E m \in AnalyzeVol15Dicts :
       /\ m # inp.env.vol["15m"]
       /\ inp' = [inp EXCEPT !.env = Put(inp.env, "15m", m)]
       /\ out' = _analyze_term_structure(cfg, inp.md, Put(inp.env, "15m", m))
    /\ pc' = "again"
    /\ UNCHANGED <<cfg, self, op>>

NextAnalyze == AnalyzeTermStructure \/ ReanalyzeMediumVol

SpecAnalyze == InitAnalyze /\ [][NextAnalyze]_vars

(***************************************************************************)
(* _validate_carry_opportunity on its own, on every candidate and every    *)
(* answer of the regime and breakout collaborators.                        *)
(***************************************************************************)
MaxBreakoutHalves == 6

ValidateConfigs ==
    {Config(R(1, 2), R(3, 10), R(3, 1), mcc, R(2, 1), R(7, 10)) :
        mcc \in {R(3, 5), R(4, 5)}}

Candidates ==
    {Signal(a, conf, R(100, 1), R(100, 1), R(100, 1)) :
        a \in {HOLD, BUY, SELL}, conf \in {R(1, 2), R(3, 5), R(3, 4), R(9, 10)}}

ValidateRegimes == {"raise", "low", "medium", "high"}

ValidateBreakouts ==
    {BreakoutRaise, BreakoutNone, BreakoutEmpty, BreakoutNoStrength}
    \cup {BreakoutDict(TRUE, R(k, 2)) : k \in 0..MaxBreakoutHalves}
    \cup {BreakoutDict(FALSE, R(MaxBreakoutHalves, 2)),
          BreakoutNoFlag(R(MaxBreakoutHalves, 2))}

InitValidate ==
    /\ cfg \in ValidateConfigs
    /\ \E signal \in Candidates, rg \in ValidateRegimes, b \in ValidateBreakouts :
       inp = [signal |-> signal, env |-> Put(Put(UnusedEnv, "regime", rg), "breakout", b)]
    /\ self = NewStrategy
    /\ pc = "ready"
    /\ op = "_validate_carry_opportunity"
    /\ out = None

ValidateCarryOpportunity ==
    /\ op = "_validate_carry_opportunity"
    /\ pc = "ready"
    /\ out' = _validate_carry_opportunity(cfg, inp.signal, inp.env)
    /\ pc' = "done"
    /\ UNCHANGED <<cfg, self, op, inp>>

NextValidate == ValidateCarryOpportunity

SpecValidate == InitValidate /\ [][NextValidate]_vars

(***************************************************************************)
(* Properties of _analyze_term_structure (under SpecAnalyze).              *)
(***************************************************************************)
AnalysisDone == op = "_analyze_term_structure" /\ pc # "ready"
Produced == AnalysisDone /\ out.ret # None
In5090(x) == Ge(x, R(1, 2)) /\ Le(x, R(9, 10))
BranchThreshold ==
    IF The(out.ret).action = SELL THEN cfg.contango_threshold
    ELSE cfg.backwardation_threshold

\* C3 as stated: for every readings and every configured thresholds, a
\* directional Signal built by _analyze_term_structure has its confidence in
\* [0.5, 0.9].
C3_ConfidenceInRangeAnyThreshold ==
    Produced => /\ The(out.ret).action \in {BUY, SELL}
                /\ In5090(The(out.ret).confidence)

\* C3 amended: when the threshold of the branch taken (contango_threshold for
\* SELL, backwardation_threshold for BUY) is not negative, a directional Signal
\* built by _analyze_term_structure has its confidence in [0.5, 0.9].
C3_ConfidenceInRange ==
    Produced /\ Ge(BranchThreshold, Zero)
        => /\ The(out.ret).action \in {BUY, SELL}
           /\ In5090(The(out.ret).confidence)

\* short_vol 0.02, long_vol 0.01, backwardation_threshold 0.3: BUY at 5/6.
C3_Witness ==
    /\ Produced
    /\ cfg.backwardation_threshold = R(3, 10)
    /\ inp.env.vol["5m"] = VolOf(2)
    /\ inp.env.vol["1h"] = VolOf(1)
    /\ The(out.ret).action = BUY
    /\ The(out.ret).confidence = R(5, 6)

AtrTaken ==
    IF inp.md.n15 >= 20 THEN inp.env.atr.v ELSE Mul(inp.md.current_price, R(1, 100))
StopOffset == Mul(AtrTaken, cfg.stop_loss_atr_multiplier)
TargetOffset == Mul(AtrTaken, cfg.target_atr_multiplier)

\* C9 as stated: entry_price is the snapshot's current price; a SELL has its
\* stop above and its target below entry, a BUY its stop below and its target
\* above, for every ATR value and every configured multiplier.
C9_StopTargetSidesAnyAtr ==
    Produced =>
        LET sig == The(out.ret) IN
        /\ sig.entry_price = inp.md.current_price
        /\ sig.action = SELL => /\ Gt(sig.stop_price, sig.entry_price)
                                /\ Lt(sig.target_price, sig.entry_price)
        /\ sig.action = BUY => /\ Lt(sig.stop_price, sig.entry_price)
                               /\ Gt(sig.target_price, sig.entry_price)

\* C9 amended: entry_price is the snapshot's current price; the stop lies on
\* its side of entry (SELL above, BUY below) whenever ATR times
\* stop_loss_atr_multiplier is positive, and the target on its side (SELL
\* below, BUY above) whenever ATR times target_atr_multiplier is positive.
C9_StopTargetSides ==
    Produced =>
        LET sig == The(out.ret) IN
        /\ sig.entry_price = inp.md.current_price
        /\ Gt(StopOffset, Zero) =>
             /\ sig.action = SELL => Gt(sig.stop_price, sig.entry_price)
             /\ sig.action = BUY => Lt(sig.stop_price, sig.entry_price)
        /\ Gt(TargetOffset, Zero) =>
             /\ sig.action = SELL => Lt(sig.target_price, sig.entry_price)
             /\ sig.action = BUY => Gt(sig.target_price, sig.entry_price)

C9_Witness ==
    /\ Produced
    /\ The(out.ret).action = SELL
    /\ inp.md = Snapshot(250, 20)
    /\ inp.env.atr = AtrOf(2)
    /\ The(out.ret).stop_price = R(254, 1)
    /\ The(out.ret).target_price = R(244, 1)

ShortVolRead == IF inp.env.vol["5m"].has20 THEN inp.env.vol["5m"].v ELSE Zero

\* C10: with all three readings available, another 15m reading alone leaves
\* the outcome of _analyze_term_structure as it was; and with short_vol <= 0
\* the overall slope is 0 and, under positive thresholds, there is no Signal.
C10_OnlyShortAndLongVol ==
    /\ [][op = "_analyze_term_structure" /\ pc # "ready" /\ pc' = "again"
            => out'.ret = out.ret]_vars
    /\ [](AnalysisDone /\ out.log # None /\ Le(ShortVolRead, Zero)
            => /\ The(out.log).overall_slope = Zero
               /\ Gt(cfg.contango_threshold, Zero)
                  /\ Gt(cfg.backwardation_threshold, Zero) => out.ret = None)

C10_Witness ==
    /\ op = "_analyze_term_structure"
    /\ pc = "again"
    /\ out.ret # None
    /\ inp.env.vol["15m"] = VolOf(0)

(***************************************************************************)
(* Properties of _validate_carry_opportunity (under SpecValidate).         *)
(***************************************************************************)
ValidationDone == op = "_validate_carry_opportunity" /\ pc = "done"

StrongBreakout(b) ==
    /\ b.kind = "dict"
    /\ b.has_flag /\ b.is_breakout
    /\ b.has_strength /\ Gt(b.breakout_strength, R(5, 2))

RegimeFilterHits(rg, signal) ==
    \/ rg = "low" /\ signal.action = 2
    \/ rg = "high" /\ signal.action = 1

\* C5: a SELL candidate in a low regime and a BUY candidate in a high regime
\* are rejected, whatever the confidence and whatever the breakout collaborator
\* would answer (it is not asked); SELL in a high regime and BUY in a low
\* regime pass the regime filter (the breakout collaborator is asked next).
C5_RegimeFilter ==
    ValidationDone =>
        /\ RegimeFilterHits(inp.env.regime, inp.signal)
             => out.ret = FALSE /\ out.calls = <<CallRegime>>
        /\ (\/ inp.env.regime = "high" /\ inp.signal.action = 2
            \/ inp.env.regime = "low" /\ inp.signal.action = 1)
             => /\ out.calls = <<CallRegime, CallBreakout>>
                /\ out.ret = (/\ inp.env.breakout.kind # "raise"
                              /\ ~StrongBreakout(inp.env.breakout)
                              /\ Ge(inp.signal.confidence, cfg.min_carry_confidence))

C5_Witness ==
    /\ ValidationDone
    /\ inp.env.regime = "low"
    /\ inp.signal.action = 2
    /\ inp.signal.confidence = R(9, 10)
    /\ inp.env.breakout = BreakoutRaise
    /\ out.ret = FALSE

\* C6: a flagged breakout of strength above 2.5 rejects every candidate; a
\* flagged breakout of strength at most 2.5, an unflagged one and an absent one
\* reject nothing: the verdict is then that of the regime filter and the
\* confidence floor.
C6_BreakoutOverride ==
    ValidationDone =>
        /\ StrongBreakout(inp.env.breakout) => out.ret = FALSE
        /\ (/\ ~StrongBreakout(inp.env.breakout)
            /\ inp.env.breakout.kind # "raise"
            /\ inp.env.regime # "raise")
             => out.ret = (/\ ~RegimeFilterHits(inp.env.regime, inp.signal)
                           /\ Ge(inp.signal.confidence, cfg.min_carry_confidence))

C6_Witness ==
    /\ ValidationDone
    /\ inp.env.breakout = BreakoutDict(TRUE, R(3, 1))
    /\ inp.env.regime = "medium"
    /\ inp.signal.confidence = R(9, 10)
    /\ out.ret = FALSE

(***************************************************************************)
(* Properties of generate_signal (under Spec).                             *)
(***************************************************************************)
Generated == op = "generate_signal"

AnswerRaises(env, call) ==
    \/ call = CallUpdate /\ env.update = "raise"
    \/ call = CallStatus /\ env.status.raises
    \/ \E tf \in {"5m", "15m", "1h"} : call = CallVol(tf) /\ env.vol[tf].kind = "raise"
    \/ call = CallAtr /\ env.atr.raises
    \/ call = CallRegime /\ env.regime = "raise"
    \/ call = CallBreakout /\ env.breakout.kind = "raise"
    \/ call = CallShouldTrade /\ env.should_trade = "raise"
    \/ call = CallMinConf /\ env.min_confidence_read = "raise"

\* C1: when a collaborator called at any stage of generate_signal raises,
\* generate_signal returns none and no exception leaves it.
C1_ExceptionsYieldNone ==
    Generated /\ (\E i \in DOMAIN out.calls : AnswerRaises(inp.env, out.calls[i]))
        => out.ret = None /\ ~out.exc

\* The last stage: reading risk_management.min_confidence raises.
C1_Witness ==
    /\ Generated
    /\ Called(CallMinConf, out.calls)
    /\ inp.env.min_confidence_read = "raise"
    /\ out.ret = None

PointsReported(tf) ==
    IF inp.env.status.tfs[tf].present /\ inp.env.status.tfs[tf].has_points
    THEN inp.env.status.tfs[tf].data_points
    ELSE 0

\* C2: when the status reports fewer than 100 data_points for 5m, 15m or 1h
\* (an absent timeframe counting 0), generate_signal returns none and never
\* calls calculate_realized_volatility; with 100 or more on all three the
\* analysis is invoked.
C2_InsufficientDataSkipsAnalysis ==
    Generated /\ Called(CallStatus, out.calls) /\ ~inp.env.status.raises =>
        /\ (\E tf \in {"5m", "15m", "1h"} : PointsReported(tf) < 100)
             => out.ret = None /\ out.calls = <<CallUpdate, CallStatus>>
        /\ (\A tf \in {"5m", "15m", "1h"} : PointsReported(tf) >= 100)
             => Called(CallVol("5m"), out.calls)

C2_Witness ==
    /\ Generated
    /\ inp.env.status = StatusShort("15m", TfAbsent)
    /\ out.ret = None
    /\ out.calls = <<CallUpdate, CallStatus>>

\* C4: after generate_signal returns a Signal, last_carry_signal, which
\* get_strategy_status reports as last_signal, is that Signal.
C4_LastSignalRecorded ==
    Generated /\ out.ret # None
        => /\ self.last_carry_signal = out.ret
           /\ get_strategy_status(self).last_signal = out.ret

\* C7: a call of generate_signal on the inputs of the call before it returns
\* what that call returned, whatever the calls before them returned; and
\* every call returns what a newly constructed instance returns on the same
\* inputs.
C7_Deterministic ==
    /\ [][op = "generate_signal" /\ op' = "generate_signal" /\ inp' = inp
            => out'.ret = out.ret]_vars
    /\ [](Generated =>
            out.ret = generate_signal(NewStrategy,
                          generate_signal_try(cfg, inp.md, inp.env)).res.ret)

C7_Witness ==
    /\ Generated
    /\ pc = "repeat"
    /\ out.ret # None

GateOrder(withAtr) ==
    <<CallUpdate, CallStatus, CallVol("5m"), CallVol("15m"), CallVol("1h")>>
    \o (IF withAtr THEN <<CallAtr>> ELSE <<>>)
    \o <<CallRegime, CallBreakout, CallShouldTrade, CallMinConf>>

IsPrefix(s, t) == Len(s) <= Len(t) /\ \A i \in 1..Len(s) : s[i] = t[i]

\* C8: the collaborators are called in the order update_price_history,
\* get_status, realized volatility (and ATR), regime, breakout, should_trade,
\* min_confidence; none is called after an earlier gate failed; and a returned
\* Signal passed every gate: it is BUY or SELL with confidence at least
\* min_carry_confidence and at least risk_management.min_confidence.
C8_GatesInOrder ==
    Generated =>
        /\ IsPrefix(out.calls, GateOrder(TRUE)) \/ IsPrefix(out.calls, GateOrder(FALSE))
        /\ Called(CallStatus, out.calls) => inp.env.update = "ok"
        /\ Called(CallVol("5m"), out.calls)
             => /\ ~inp.env.status.raises
                /\ \A tf \in {"5m", "15m", "1h"} : PointsReported(tf) >= 100
        /\ Called(CallRegime, out.calls) => out.primary_signal # None
        /\ Called(CallShouldTrade, out.calls)
             => /\ inp.env.regime # "raise"
                /\ ~RegimeFilterHits(inp.env.regime, The(out.primary_signal))
                /\ inp.env.breakout.kind # "raise"
                /\ ~StrongBreakout(inp.env.breakout)
                /\ Ge(The(out.primary_signal).confidence, cfg.min_carry_confidence)
        /\ Called(CallMinConf, out.calls) => inp.env.should_trade = "true"
        /\ out.ret # None
             => /\ out.ret = out.primary_signal
                /\ Called(CallMinConf, out.calls)
                /\ inp.env.min_confidence_read = "ok"
                /\ The(out.ret).action \in {1, 2}
                /\ Ge(The(out.ret).confidence, cfg.min_carry_confidence)
                /\ Ge(The(out.ret).confidence, cfg.min_confidence)

C8_Witness ==
    /\ Generated
    /\ out.ret # None
    /\ out.calls = GateOrder(TRUE)

====
